---------------------------- MODULE Spec2Model ----------------------------
(***************************************************************************)
(* Model of the recipe-app backend (src/server.js): the reconciliation of  *)
(* a client snapshot with the persisted state (POST /data), the pure merge *)
(* functions it uses, and the polling lock that guards data.json.          *)
(*                                                                         *)
(* A list element is a record                                              *)
(*   [kind, id, updatedAt, instructions, imageBase64, v]                   *)
(* kind is the JavaScript type of the element ("object", "null",           *)
(* "number", "undefined"); a field the object does not carry holds the     *)
(* falsy value the code reads it as: "" for id, instructions and           *)
(* imageBase64, 0 for updatedAt                                            *)
(* (`i.updatedAt ? new Date(i.updatedAt).getTime() : 0`).  v stands for    *)
(* the fields no code reads, which the spread `{ ...item }` carries along. *)
(* updatedAt is the millisecond count new Date(..).getTime() returns.      *)
(***************************************************************************)
EXTENDS Integers, Sequences, FiniteSets, TLC

\* ------------------------------------------------------------------ bounds
\* Most elements the two input lists of a merge hold together.
MaxTotal == 3
\* Requests the server receives in a run.
NumReq == 2
\* Storage operations (fs.readFile, fs.writeFile) that fail in a run.
MaxFaults == 1
\* Most ids a list of deleted ids holds when the lists are merged alone.
MaxIdLen == 2

\* Ids, timestamps and field values the inputs are drawn from.
Ids == {"a", "b"}
Times == {0, 1, 2}

\* ------------------------------------------------------------ list elements
Item(k, i, t, ins, img) ==
    [kind |-> k, id |-> i, updatedAt |-> t, instructions |-> ins, imageBase64 |-> img,
     v |-> 0]

\* null, 42 and {} : the malformed elements a list may hold.
NullItem == Item("null", "", 0, "", "")
NumItem == Item("number", "", 0, "", "")
NoIdItem == Item("object", "", 0, "", "")

\* A list that is absent (`undefined`): what `serverData.recipes` reads when
\* the stored document lacks the key.  It is told from every list of
\* elements by the element it holds, which no array parsed from JSON can.
undefinedList == <<Item("undefined", "", 0, "", "")>>

\* (list || [])
OrEmpty(list) == IF list = undefinedList THEN <<>> ELSE list

\* What mergeOrderedList leaves when a TypeError is thrown inside it.
TypeError == <<Item("TypeError", "", 0, "", "")>>

\* Reading a property of null or undefined throws a TypeError; of a number
\* or an object it yields the value or undefined.
PropertyReadThrows(i) == i.kind \in {"null", "undefined"}

\* i && typeof i === 'object' && i.id
IsValidItem(i) == i.kind = "object" /\ i.id # ""

IdsOf(list) == {list[k].id : k \in DOMAIN list}

Range(s) == {s[k] : k \in DOMAIN s}

\* ------------------------------------------------------- mergeOrderedList
\* Sanitize that lets every element through.
MutSanitizeKeepAll(list) == list

\* .filter(i => i && typeof i === 'object' && i.id)
Sanitize(list) == SelectSeq(list, IsValidItem)

\* PutItem without the image rule of line 75: the newer record replaces the
\* kept one as it is.
MutPutItemNoImageCopy(map, item) ==
    IF item.id \notin DOMAIN map
    THEN (item.id :> item) @@ map
    ELSE IF item.updatedAt >= map[item.id].updatedAt
         THEN (item.id :> item) @@ map
         ELSE map

\* PutItem with `newTime > existingTime`: on equal timestamps the record
\* met first, the server's, is kept.
MutPutItemServerWinsTies(map, item) ==
    IF item.id \notin DOMAIN map
    THEN (item.id :> item) @@ map
    ELSE LET existing == map[item.id]
         IN  IF item.updatedAt > existing.updatedAt
             THEN IF item.instructions # "" /\ item.imageBase64 = ""
                     /\ existing.imageBase64 # ""
                  THEN (item.id :> [item EXCEPT !.imageBase64 = existing.imageBase64]) @@ map
                  ELSE (item.id :> item) @@ map
             ELSE map

\* One step of the forEach that fills allItemsMap: the map is a function from
\* the ids seen so far to the record kept for each.
PutItem(map, item) ==
    IF item.id \notin DOMAIN map
    THEN (item.id :> item) @@ map
    ELSE LET existing == map[item.id]
             existingTime == existing.updatedAt
             newTime == item.updatedAt
         IN  IF newTime >= existingTime
             THEN IF item.instructions # "" /\ item.imageBase64 = ""
                     /\ existing.imageBase64 # ""
                  THEN (item.id :> [item EXCEPT !.imageBase64 = existing.imageBase64]) @@ map
                  ELSE (item.id :> item) @@ map
             ELSE map

RECURSIVE BuildItemsMap(_, _)
BuildItemsMap(list, map) ==
    IF list = <<>> THEN map
    ELSE BuildItemsMap(Tail(list), PutItem(map, Head(list)))

EmptyMap == [x \in {} |-> NullItem]

\* timestamps.sort((a, b) => b - a): insertion into a descending sequence.
RECURSIVE InsertDesc(_, _)
InsertDesc(sorted, t) ==
    IF sorted = <<>> THEN <<t>>
    ELSE IF t > Head(sorted) THEN <<t>> \o sorted
         ELSE <<Head(sorted)>> \o InsertDesc(Tail(sorted), t)

RECURSIVE SortDesc(_)
SortDesc(ts) ==
    IF ts = <<>> THEN <<>>
    ELSE InsertDesc(SortDesc(Tail(ts)), Head(ts))

\* getListRecencyScore with index 0 for medianIndex: the newest timestamp.
MutScoreNewest(list) ==
    IF Len(list) = 0 THEN 0
    ELSE SortDesc([k \in 1..Len(list) |-> list[k].updatedAt])[1]

getListRecencyScore(list) ==
    IF Len(list) = 0 THEN 0
    ELSE LET timestamps == [k \in 1..Len(list) |-> list[k].updatedAt]
             sortedTimestamps == SortDesc(timestamps)
             medianIndex == Len(sortedTimestamps) \div 2
         IN  sortedTimestamps[medianIndex + 1]

\* authoritativeList.map(item => allItemsMap.get(item.id))
MapToMerged(list, map) == [k \in 1..Len(list) |-> map[list[k].id]]

\* FinalOrder without step 4: the other list's own records are not added.
MutFinalOrderAuthoritativeOnly(authoritativeList, otherList, map) ==
    MapToMerged(authoritativeList, map)

\* FinalOrder with the other list's own records put first.
MutFinalOrderOthersFirst(authoritativeList, otherList, map) ==
    LET authoritativeIds == IdsOf(authoritativeList)
        others == SelectSeq(otherList, LAMBDA i : i.id \notin authoritativeIds)
    IN  MapToMerged(others, map) \o MapToMerged(authoritativeList, map)

\* Steps 3 and 4: the authoritative order, then the other list's records
\* whose id the authoritative list does not hold.
FinalOrder(authoritativeList, otherList, map) ==
    LET authoritativeIds == IdsOf(authoritativeList)
        mergedList == MapToMerged(authoritativeList, map)
        others == SelectSeq(otherList, LAMBDA i : i.id \notin authoritativeIds)
    IN  mergedList \o MapToMerged(others, map)

\* mergeOrderedList with `clientScore > serverScore`: on equal scores the
\* server's order is taken.
MutMergeServerOrderOnTie(serverList, clientList) ==
    LET safeClientList == Sanitize(OrEmpty(clientList))
        safeServerList == Sanitize(OrEmpty(serverList))
        allItemsMap == BuildItemsMap(safeServerList \o safeClientList, EmptyMap)
        clientScore == getListRecencyScore(safeClientList)
        serverScore == getListRecencyScore(safeServerList)
    IN  IF clientScore > serverScore
        THEN FinalOrder(safeClientList, safeServerList, allItemsMap)
        ELSE FinalOrder(safeServerList, safeClientList, allItemsMap)

mergeOrderedList(serverList, clientList) ==
    LET safeClientList == Sanitize(OrEmpty(clientList))
        safeServerList == Sanitize(OrEmpty(serverList))
        allItemsMap == BuildItemsMap(safeServerList \o safeClientList, EmptyMap)
        clientScore == getListRecencyScore(safeClientList)
        serverScore == getListRecencyScore(safeServerList)
        authoritativeList == IF clientScore >= serverScore
                             THEN safeClientList ELSE safeServerList
        otherList == IF clientScore >= serverScore
                     THEN safeServerList ELSE safeClientList
    IN  FinalOrder(authoritativeList, otherList, allItemsMap)

\* The places of mergeOrderedList that can throw: `.filter` called on a list
\* that is undefined, and `item.id` or `i.updatedAt` read from an element of
\* a sanitized list (lines 68, 70, 90, 101-110) that is null or undefined.
mergeOrderedListThrows(serverList, clientList) ==
    LET safeClientList == Sanitize(OrEmpty(clientList))
        safeServerList == Sanitize(OrEmpty(serverList))
    IN  \/ OrEmpty(clientList) = undefinedList
        \/ OrEmpty(serverList) = undefinedList
        \/ \E i \in Range(safeServerList \o safeClientList) : PropertyReadThrows(i)

\* ------------------------------- mergeRecipes of the server-order variant
\* new Map(safeNewRecipes.map(r => [r.id, r])).get(id): the last record of
\* the list with the id.
LastWithId(list, id) ==
    list[CHOOSE k \in DOMAIN list :
            list[k].id = id /\ \A j \in (k + 1)..Len(list) : list[j].id # id]

\* mergeRecipes that returns the client's record as it is, without the
\* server's image.
MutMergeRecipesDropsImage(existingRecipes, newRecipes) ==
    LET safeNewRecipes == Sanitize(OrEmpty(newRecipes))
        safeExistingRecipes == Sanitize(OrEmpty(existingRecipes))
        serverRecipeIds == IdsOf(safeExistingRecipes)
        newFromClient == SelectSeq(safeNewRecipes, LAMBDA r : r.id \notin serverRecipeIds)
        updatedServerList ==
            [k \in 1..Len(safeExistingRecipes) |->
                IF safeExistingRecipes[k].id \notin IdsOf(safeNewRecipes)
                THEN safeExistingRecipes[k]
                ELSE LastWithId(safeNewRecipes, safeExistingRecipes[k].id)]
    IN  newFromClient \o updatedServerList

\* mergeRecipes of src/unnamed/part_000: the server's order, the client's
\* new records put first.
mergeRecipes(existingRecipes, newRecipes) ==
    LET safeNewRecipes == Sanitize(OrEmpty(newRecipes))
        safeExistingRecipes == Sanitize(OrEmpty(existingRecipes))
        serverRecipeIds == IdsOf(safeExistingRecipes)
        newFromClient == SelectSeq(safeNewRecipes, LAMBDA r : r.id \notin serverRecipeIds)
        updatedServerList ==
            [k \in 1..Len(safeExistingRecipes) |->
                LET serverRecipe == safeExistingRecipes[k]
                IN  IF serverRecipe.id \notin IdsOf(safeNewRecipes)
                    THEN serverRecipe
                    ELSE LET clientRecipe == LastWithId(safeNewRecipes, serverRecipe.id)
                         IN  IF clientRecipe.imageBase64 = "" /\ serverRecipe.imageBase64 # ""
                             THEN [clientRecipe EXCEPT !.imageBase64 = serverRecipe.imageBase64]
                             ELSE clientRecipe]
    IN  newFromClient \o updatedServerList

\* -------------------------------------------------------- mergeDeletedIds
\* Array.from(new Set([...existingIds, ...newIds])): the concatenation with
\* every id kept at its first occurrence.
\* A list of ids that is absent (`undefined`), told from every list of ids
\* by the one entry it holds, which is no record's id.
undefinedIds == <<"(undefined)">>

\* (existingIds || []), (newIds || [])
OrEmptyIds(ids) == IF ids = undefinedIds THEN <<>> ELSE ids

\* Dedup that keeps every occurrence.
MutDedupKeepAll(list, seen) == list

RECURSIVE Dedup(_, _)
Dedup(list, seen) ==
    IF list = <<>> THEN <<>>
    ELSE IF Head(list) \in seen THEN Dedup(Tail(list), seen)
         ELSE <<Head(list)>> \o Dedup(Tail(list), seen \cup {Head(list)})

mergeDeletedIds(existingIds, newIds) ==
    Dedup(OrEmptyIds(existingIds) \o OrEmptyIds(newIds), {})

\* ------------------------------------------------------- persisted state
\* The document kept in data.json.  lastUpdated, which POST /data stamps
\* and no code reads, is left out.
State(rs, gs, dr, dg) ==
    [recipes |-> rs, groceryList |-> gs, deletedRecipeIds |-> dr, deletedGroceryIds |-> dg]

\* { recipes: [], groceryList: [], deletedRecipeIds: [], deletedGroceryIds: [] }
initialData == State(<<>>, <<>>, <<>>, <<>>)

\* r => !allDeletedRecipeIds.includes(r.id)
FilterDeleted(list, deletedIds) ==
    SelectSeq(list, LAMBDA r : r.id \notin Range(deletedIds))

\* finalData filtering with the server's tombstones only, as if step 3 ran
\* before the client's deletions were merged in.
MutFinalDataServerTombstones(serverData, clientData) ==
    LET allDeletedRecipeIds ==
            mergeDeletedIds(serverData.deletedRecipeIds, clientData.deletedRecipeIds)
        allDeletedGroceryIds ==
            mergeDeletedIds(serverData.deletedGroceryIds, clientData.deletedGroceryIds)
        mergedRecipes == mergeOrderedList(serverData.recipes, clientData.recipes)
        mergedGrocery == mergeOrderedList(serverData.groceryList, clientData.groceryList)
    IN  State(FilterDeleted(mergedRecipes, serverData.deletedRecipeIds),
              FilterDeleted(mergedGrocery, serverData.deletedGroceryIds),
              allDeletedRecipeIds, allDeletedGroceryIds)

\* Steps 1 to 3 of POST /data: the state it writes and answers with.
finalData(serverData, clientData) ==
    LET allDeletedRecipeIds ==
            mergeDeletedIds(serverData.deletedRecipeIds, clientData.deletedRecipeIds)
        allDeletedGroceryIds ==
            mergeDeletedIds(serverData.deletedGroceryIds, clientData.deletedGroceryIds)
        mergedRecipes == mergeOrderedList(serverData.recipes, clientData.recipes)
        mergedGrocery == mergeOrderedList(serverData.groceryList, clientData.groceryList)
        finalRecipes == FilterDeleted(mergedRecipes, allDeletedRecipeIds)
        finalGrocery == FilterDeleted(mergedGrocery, allDeletedGroceryIds)
    IN  State(finalRecipes, finalGrocery, allDeletedRecipeIds, allDeletedGroceryIds)

\* ------------------------------------------------------------------ inputs
Texts == {"", "txt"}
Images == {"", "IMG"}

\* The elements an input list is drawn from: every record for id "a", the
\* records for id "b" that carry a timestamp only, and the malformed elements.
Items ==
    {Item("object", "a", t, ins, img) : t \in Times, ins \in Texts, img \in Images}
    \cup {Item("object", "b", t, "", "") : t \in Times}
    \cup {NullItem, NumItem, NoIdItem}

ListsOf(S, n) == UNION {[1..k -> S] : k \in 0..n}

\* The merge of two malformed lists the specification works out:
\* server [null, {}, {id: a}], client [{id: a, v: 2}, 42].
ExampleServerList == <<NullItem, NoIdItem, Item("object", "a", 0, "", "")>>
ExampleClientList == <<[Item("object", "a", 0, "", "") EXCEPT !.v = 2], NumItem>>

\* Pairs (server list, client list) beyond the bounded lists: an absent list
\* beside a list of at most one element, and the worked example.
ExtraInputs ==
    {<<undefinedList, c>> : c \in ListsOf(Items, 1) \cup {undefinedList}}
    \cup {<<s, undefinedList>> : s \in ListsOf(Items, 1)}
    \cup {<<ExampleServerList, ExampleClientList>>}

\* req.body.  shape is "none" for a missing body or one that is no object,
\* "noarrays" for an object lacking one of the four arrays, "full" otherwise.
Body(sh, rs, gs, dr, dg) ==
    [shape |-> sh, recipes |-> rs, groceryList |-> gs,
     deletedRecipeIds |-> dr, deletedGroceryIds |-> dg]

NoBody == Body("none", <<>>, <<>>, <<>>, <<>>)

\* The records the devices and the stored file hold in the server runs: the
\* stored recipe carries an image, the devices' later edit of it does not.
StoredRecipe == Item("object", "a", 1, "", "IMG")
EditedRecipe == Item("object", "a", 2, "txt", "")
GroceryItem == Item("object", "a", 1, "", "")

\* The snapshots a device posts: one collection's record or its tombstone,
\* and the two bodies the validation rejects.
Bodies ==
    {NoBody, Body("noarrays", <<>>, <<>>, <<>>, <<>>)}
    \cup {Body("full", rs, <<>>, dr, <<>>) :
            rs \in {<<>>, <<EditedRecipe>>}, dr \in {<<>>, <<"a">>}}
    \cup {Body("full", <<>>, gs, <<>>, dg) :
            gs \in {<<>>, <<GroceryItem>>}, dg \in {<<>>, <<"a">>}}

\* What data.json holds when the process starts, when it exists and parses.
InitFiles ==
    {initialData, State(<<StoredRecipe>>, <<GroceryItem>>, <<>>, <<>>)}

Reqs == 1..NumReq

VARIABLES
    isLocked,    \* the lock flag of withLock
    running,     \* the request whose code the event loop is running, 0 if none
    fileStatus,  \* data.json: "missing", "ok" (parses), "corrupt" (does not)
    file,        \* the document data.json holds when fileStatus = "ok"
    req,         \* per request: position, body, locals, response
    faults,      \* storage operations that have failed so far
    base,        \* merge check: the server state S
    snap,        \* merge check: the client snapshot C
    mergedList,  \* merge check: mergeOrderedList(S.recipes, C.recipes)
    next1,       \* merge check: the state N reconciled from S and C
    next2,       \* merge check: the state reconciled from N and C
    stage        \* merge check: "off", "input", "merged", "reconciled", "again",
                 \* "ids", "idsmerged", "serverorder"

serverVars == <<isLocked, running, fileStatus, file, req, faults>>

mergeVars == <<base, snap, mergedList, next1, next2, stage>>

vars == <<isLocked, running, fileStatus, file, req, faults,
          base, snap, mergedList, next1, next2, stage>>

IdleReq ==
    [pc |-> "idle", route |-> "none", body |-> NoBody, record |-> NullItem, param |-> "",
     serverData |-> initialData, finalData |-> initialData, ok |-> FALSE,
     status |-> 0, overlap |-> {}]

MergeOff ==
    /\ base = initialData
    /\ snap = initialData
    /\ mergedList = <<>>
    /\ next1 = initialData
    /\ next2 = initialData
    /\ stage = "off"

ServerOff ==
    /\ isLocked = FALSE
    /\ running = 0
    /\ fileStatus = "missing"
    /\ file = initialData
    /\ req = [r \in Reqs |-> IdleReq]
    /\ faults = 0

\* ----------------------------------------------------------------- server
\* Node runs one callback at a time, to completion.  A request arriving, a
\* timer firing and a storage operation completing are tasks of the event
\* loop: each starts only when no code is running (running = 0).  The code
\* after an `await` on a promise that has settled is a microtask, and the
\* microtasks a task leaves behind all run before the next task: those are
\* the steps with running = r.  So the code from the completion of
\* fs.readFile to the start of fs.writeFile (readData's return, withLock's
\* finally, the merge, writeData's withLock) runs with no other request's
\* code in between, and code stops only at the awaits on setTimeout (line
\* 20) and on fs.readFile / fs.writeFile (lines 36, 39, 53).
\* A stored document always carries its two tombstone arrays, so the
\* defaults of lines 42-43 leave it as read.
Init ==
    /\ isLocked = FALSE
    /\ running = 0
    /\ \/ fileStatus \in {"missing", "corrupt"} /\ file = initialData
       \/ fileStatus = "ok" /\ file \in InitFiles
    /\ req = [r \in Reqs |-> IdleReq]
    /\ faults = 0
    /\ MergeOff

Active(r) == req[r].pc \notin {"idle", "done"}

\* app.post('/data'), to its first await: the validation, then readData().
Receive(r, b) ==
    /\ running = 0
    /\ req[r].pc = "idle"
    /\ IF b.shape # "full"
       THEN /\ req' = [req EXCEPT ![r].pc = "done", ![r].route = "data",
                                  ![r].body = b, ![r].status = 400]
            /\ running' = 0
       ELSE /\ req' = [req EXCEPT ![r].pc = "rd_enter", ![r].route = "data",
                                  ![r].body = b,
                                  ![r].overlap = {q \in Reqs : Active(q)}]
            /\ running' = r
    /\ UNCHANGED <<isLocked, fileStatus, file, faults, mergeVars>>

\* withLock without the loop of lines 18-20: the caller sets the flag and
\* runs its callback whether or not the lock is taken.
MutWithLockEnterNoTest(r) ==
    /\ running = r
    /\ req[r].pc \in {"rd_enter", "wr_enter"}
    /\ isLocked' = TRUE
    /\ req' = [req EXCEPT ![r].pc =
                  IF req[r].pc = "rd_enter" THEN "rd_cb" ELSE "wr_cb"]
    /\ UNCHANGED <<running, fileStatus, file, faults, mergeVars>>

\* withLock: `while (isLocked) await sleep(50)`, then `isLocked = true`.
\* The test and the assignment run with no await between them.
WithLockEnter(r) ==
    /\ running = r
    /\ req[r].pc \in {"rd_enter", "wr_enter"}
    /\ IF isLocked
       THEN /\ req' = [req EXCEPT ![r].pc =
                          IF req[r].pc = "rd_enter" THEN "rd_wait" ELSE "wr_wait"]
            /\ running' = 0
            /\ UNCHANGED isLocked
       ELSE /\ isLocked' = TRUE
            /\ req' = [req EXCEPT ![r].pc =
                          IF req[r].pc = "rd_enter" THEN "rd_cb" ELSE "wr_cb"]
            /\ UNCHANGED running
    /\ UNCHANGED <<fileStatus, file, faults, mergeVars>>

\* The 50 ms timer of a waiting caller fires: the loop tests isLocked again.
TimerFires(r) ==
    /\ running = 0
    /\ req[r].pc \in {"rd_wait", "wr_wait"}
    /\ req' = [req EXCEPT ![r].pc =
                  IF req[r].pc = "rd_wait" THEN "rd_enter" ELSE "wr_enter"]
    /\ running' = r
    /\ UNCHANGED <<isLocked, fileStatus, file, faults, mergeVars>>

\* readData's callback to its await: existsSync, then writeFile of the
\* initial document or readFile.
ReadDataStart(r) ==
    /\ running = r
    /\ req[r].pc = "rd_cb"
    /\ req' = [req EXCEPT ![r].pc =
                  IF fileStatus = "missing" THEN "rd_init" ELSE "rd_read"]
    /\ running' = 0
    /\ UNCHANGED <<isLocked, fileStatus, file, faults, mergeVars>>

\* fs.writeFile(DATA_FILE, initialData) completes; on failure the catch
\* returns the empty state and the file is absent or partly written.
InitFileDone(r) ==
    /\ running = 0
    /\ req[r].pc = "rd_init"
    /\ \/ /\ fileStatus' = "ok"
          /\ file' = initialData
          /\ UNCHANGED faults
       \/ /\ faults < MaxFaults
          /\ faults' = faults + 1
          /\ fileStatus' \in {"missing", "corrupt"}
          /\ UNCHANGED file
    /\ req' = [req EXCEPT ![r].pc = "rd_release", ![r].serverData = initialData]
    /\ running' = r
    /\ UNCHANGED <<isLocked, mergeVars>>

\* ReadResult without the catch of lines 45-48: the document is returned
\* whether or not the read succeeded.
MutReadResultNoFallback(failed) == file

\* What readData returns once fs.readFile has completed: the parsed
\* document, or the empty state when the read or JSON.parse throws.
ReadResult(failed) ==
    IF failed \/ fileStatus # "ok" THEN initialData ELSE file

\* fs.readFile completes.
ReadFileDone(r) ==
    /\ running = 0
    /\ req[r].pc = "rd_read"
    /\ \E failed \in BOOLEAN :
          /\ failed => faults < MaxFaults
          /\ faults' = IF failed THEN faults + 1 ELSE faults
          /\ req' = [req EXCEPT ![r].pc = "rd_release",
                                ![r].serverData = ReadResult(failed)]
    /\ running' = r
    /\ UNCHANGED <<isLocked, fileStatus, file, mergeVars>>

\* Release with `isLocked = false` after `await fn()` on the success path
\* only: a writeData whose write failed leaves the flag set.
MutReleaseOnSuccessOnly(r) ==
    /\ running = r
    /\ req[r].pc \in {"rd_release", "wr_release"}
    /\ isLocked' = (req[r].pc = "wr_release" /\ ~req[r].ok)
    /\ req' = [req EXCEPT ![r].pc =
                  IF req[r].pc = "rd_release" THEN "merge" ELSE "respond"]
    /\ UNCHANGED <<running, fileStatus, file, faults, mergeVars>>

\* Release without the finally of line 26: the flag stays set.
MutReleaseKeepsLock(r) ==
    /\ running = r
    /\ req[r].pc \in {"rd_release", "wr_release"}
    /\ req' = [req EXCEPT ![r].pc =
                  IF req[r].pc = "rd_release" THEN "merge" ELSE "respond"]
    /\ UNCHANGED <<isLocked, running, fileStatus, file, faults, mergeVars>>

\* withLock's finally: isLocked = false; the caller's await then resumes.
Release(r) ==
    /\ running = r
    /\ req[r].pc \in {"rd_release", "wr_release"}
    /\ isLocked' = FALSE
    /\ req' = [req EXCEPT ![r].pc =
                  IF req[r].pc = "rd_release" THEN "merge" ELSE "respond"]
    /\ UNCHANGED <<running, fileStatus, file, faults, mergeVars>>

\* POST /data after `await readData()`: the merge, then writeData(finalData).
MergeData(r) ==
    /\ running = r
    /\ req[r].pc = "merge"
    /\ req[r].route = "data"
    /\ req' = [req EXCEPT ![r].pc = "wr_enter",
                          ![r].finalData = finalData(req[r].serverData, req[r].body),
                          ![r].serverData = initialData]
    /\ UNCHANGED <<isLocked, running, fileStatus, file, faults, mergeVars>>

\* writeData's callback to its await on fs.writeFile.
WriteDataStart(r) ==
    /\ running = r
    /\ req[r].pc = "wr_cb"
    /\ req' = [req EXCEPT ![r].pc = "wr_write"]
    /\ running' = 0
    /\ UNCHANGED <<isLocked, fileStatus, file, faults, mergeVars>>

\* fs.writeFile(DATA_FILE, data) completes: the file holds data, or the
\* write failed and the file is as before or partly written.
WriteFileDone(r) ==
    /\ running = 0
    /\ req[r].pc = "wr_write"
    /\ \/ /\ fileStatus' = "ok"
          /\ file' = req[r].finalData
          /\ req' = [req EXCEPT ![r].pc = "wr_release", ![r].ok = TRUE]
          /\ UNCHANGED faults
       \/ /\ faults < MaxFaults
          /\ faults' = faults + 1
          /\ \/ UNCHANGED <<fileStatus, file>>
             \/ fileStatus' = "corrupt" /\ file' = initialData
          /\ req' = [req EXCEPT ![r].pc = "wr_release", ![r].ok = FALSE]
    /\ running' = r
    /\ UNCHANGED <<isLocked, mergeVars>>

\* After `await writeData(..)`.  POST /data, in both versions of the server,
\* answers 200 with the merged state, or 500 when writeData returned false;
\* POST /recipes, POST /grocery and the two DELETE handlers do not look at
\* what writeData returned and answer 200.
Respond(r) ==
    /\ running = r
    /\ req[r].pc = "respond"
    /\ req' = [req EXCEPT ![r].pc = "done",
                          ![r].status = IF req[r].route \in {"data", "bulk"} /\ ~req[r].ok
                                        THEN 500 ELSE 200]
    /\ running' = 0
    /\ UNCHANGED <<isLocked, fileStatus, file, faults, mergeVars>>

Next ==
    \/ \E r \in Reqs, b \in Bodies : Receive(r, b)
    \/ \E r \in Reqs : WithLockEnter(r)
    \/ \E r \in Reqs : TimerFires(r)
    \/ \E r \in Reqs : ReadDataStart(r)
    \/ \E r \in Reqs : InitFileDone(r)
    \/ \E r \in Reqs : ReadFileDone(r)
    \/ \E r \in Reqs : Release(r)
    \/ \E r \in Reqs : MergeData(r)
    \/ \E r \in Reqs : WriteDataStart(r)
    \/ \E r \in Reqs : WriteFileDone(r)
    \/ \E r \in Reqs : Respond(r)

Spec == Init /\ [][Next]_vars

\* The event loop's scheduling.  A continuation that is ready runs: nothing
\* else can run before it.  A timer that has expired and a storage operation
\* that has completed are served in every turn of the loop, so neither is
\* put off forever by the other tasks that keep arriving.
FairSpec ==
    /\ Spec
    /\ \A r \in Reqs :
          /\ WF_vars(WithLockEnter(r))
          /\ WF_vars(ReadDataStart(r))
          /\ WF_vars(Release(r))
          /\ WF_vars(MergeData(r))
          /\ WF_vars(WriteDataStart(r))
          /\ WF_vars(Respond(r))
          /\ SF_vars(TimerFires(r))
          /\ SF_vars(InitFileDone(r))
          /\ SF_vars(ReadFileDone(r))
          /\ SF_vars(WriteFileDone(r))

\* ------------------------------------ the single-record endpoints (restore)
\* req.body of POST /recipes and POST /grocery: the record, and whether it
\* carries the title (recipes) or name (grocery) the validation asks for.
RecordBody(x, n) == [record |-> x, named |-> n]

OtherRecipe == Item("object", "b", 1, "", "")

RecordBodies ==
    {RecordBody(x, n) : x \in {EditedRecipe, GroceryItem, OtherRecipe}, n \in BOOLEAN}
    \cup {RecordBody(NoIdItem, TRUE)}

\* What data.json holds when the process starts: as for POST /data, or with
\* the ids deleted earlier on the tombstone lists.
RecordFiles ==
    InitFiles
    \cup {State(<<>>, <<>>, <<"a">>, <<"a">>),
          State(<<OtherRecipe>>, <<OtherRecipe>>, <<"a">>, <<"a">>)}

\* data.recipes.findIndex(r => r.id === newRecipe.id), counted from 1; 0 when
\* no record has the id.
FindIndex(list, id) ==
    IF id \in IdsOf(list)
    THEN CHOOSE k \in DOMAIN list :
            list[k].id = id /\ \A j \in 1..(k - 1) : list[j].id # id
    ELSE 0

\* ids.filter(id => id !== x)
WithoutId(ids, x) == SelectSeq(ids, LAMBDA id : id # x)

\* POST /recipes, lines 314-322: the document it hands to writeData.
postRecipe(data, newRecipe) ==
    LET existingIndex == FindIndex(data.recipes, newRecipe.id)
    IN  [data EXCEPT !.deletedRecipeIds = WithoutId(data.deletedRecipeIds, newRecipe.id),
                     !.recipes = IF existingIndex > 0
                                 THEN [data.recipes EXCEPT ![existingIndex] = newRecipe]
                                 ELSE <<newRecipe>> \o data.recipes]

\* POST /grocery, lines 355-359: the document `data` becomes.
postGrocery(data, newItem) ==
    [data EXCEPT !.deletedGroceryIds = WithoutId(data.deletedGroceryIds, newItem.id),
                 !.groceryList = IF newItem.id \in IdsOf(data.groceryList)
                                 THEN data.groceryList
                                 ELSE <<newItem>> \o data.groceryList]

InitRecords ==
    /\ isLocked = FALSE
    /\ running = 0
    /\ \/ fileStatus \in {"missing", "corrupt"} /\ file = initialData
       \/ fileStatus = "ok" /\ file \in RecordFiles
    /\ req = [r \in Reqs |-> IdleReq]
    /\ faults = 0
    /\ MergeOff

\* app.post('/recipes') and app.post('/grocery'), to their first await: the
\* validation, then readData().
ReceiveRecord(r, route, b) ==
    /\ running = 0
    /\ req[r].pc = "idle"
    /\ IF ~IsValidItem(b.record) \/ ~b.named
       THEN /\ req' = [req EXCEPT ![r].pc = "done", ![r].route = route,
                                  ![r].record = b.record, ![r].status = 400]
            /\ running' = 0
       ELSE /\ req' = [req EXCEPT ![r].pc = "rd_enter", ![r].route = route,
                                  ![r].record = b.record,
                                  ![r].overlap = {q \in Reqs : Active(q)}]
            /\ running' = r
    /\ UNCHANGED <<isLocked, fileStatus, file, faults, mergeVars>>

\* POST /recipes after `await readData()`: the tombstone is dropped, the
\* record replaced or put first, then writeData(data).
ApplyRecipe(r) ==
    /\ running = r
    /\ req[r].pc = "merge"
    /\ req[r].route = "recipes"
    /\ req' = [req EXCEPT ![r].pc = "wr_enter",
                          ![r].finalData = postRecipe(req[r].serverData, req[r].record),
                          ![r].serverData = initialData]
    /\ UNCHANGED <<isLocked, running, fileStatus, file, faults, mergeVars>>

\* POST /grocery after `await readData()`: writeData(data) only when the
\* list did not hold the id; otherwise 200 at once.
ApplyGrocery(r) ==
    /\ running = r
    /\ req[r].pc = "merge"
    /\ req[r].route = "grocery"
    /\ IF req[r].record.id \in IdsOf(req[r].serverData.groceryList)
       THEN /\ req' = [req EXCEPT ![r].pc = "done", ![r].status = 200,
                                  ![r].serverData = initialData]
            /\ running' = 0
       ELSE /\ req' = [req EXCEPT ![r].pc = "wr_enter",
                                  ![r].finalData = postGrocery(req[r].serverData, req[r].record),
                                  ![r].serverData = initialData]
            /\ UNCHANGED running
    /\ UNCHANGED <<isLocked, fileStatus, file, faults, mergeVars>>

\* The id a DELETE names, and the snapshots a stale device posts to the
\* bulk endpoint: one collection's record, or no body.
DeleteIds == {"a"}

BulkBodies ==
    {NoBody, Body("full", <<EditedRecipe>>, <<>>, <<>>, <<>>),
     Body("full", <<>>, <<GroceryItem>>, <<>>, <<>>)}

\* One forEach of mergeRecipes / mergeGroceryList (lines 247-248, 255-256):
\* recipeMap.set(recipe.id, recipe) for every valid record.  The Map is the
\* sequence of its values in insertion order; setting a key that is there
\* replaces the value in place.
RECURSIVE SetAll(_, _)
SetAll(values, list) ==
    IF list = <<>> THEN values
    ELSE LET item == Head(list)
             k == FindIndex(values, item.id)
         IN  SetAll(IF k > 0 THEN [values EXCEPT ![k] = item]
                             ELSE Append(values, item),
                    Tail(list))

\* mergeRecipes and mergeGroceryList of lines 245-260.
mergeById(existingItems, newItems) ==
    SetAll(SetAll(<<>>, Sanitize(OrEmpty(existingItems))), Sanitize(OrEmpty(newItems)))

\* POST /data, lines 281-292: the document it hands to writeData.
mergedData(existingData, newData) ==
    LET cleanNewRecipes ==
            SelectSeq(newData.recipes,
                      LAMBDA r : r.id \notin Range(existingData.deletedRecipeIds))
        cleanNewGrocery ==
            SelectSeq(newData.groceryList,
                      LAMBDA i : i.id \notin Range(existingData.deletedGroceryIds))
    IN  State(mergeById(existingData.recipes, cleanNewRecipes),
              mergeById(existingData.groceryList, cleanNewGrocery),
              existingData.deletedRecipeIds, existingData.deletedGroceryIds)

\* ids with id pushed unless it is there: `if (!ids.includes(id)) ids.push(id)`
PushUnlessIncluded(ids, id) == IF id \in Range(ids) THEN ids ELSE Append(ids, id)

\* DELETE /recipes/:id, lines 333-339: the document it hands to writeData.
deleteRecipe(data, id) ==
    [data EXCEPT !.recipes = SelectSeq(data.recipes, LAMBDA r : r.id # id),
                 !.deletedRecipeIds = PushUnlessIncluded(data.deletedRecipeIds, id)]

\* DELETE /grocery/:id, lines 370-376.
deleteGrocery(data, id) ==
    [data EXCEPT !.groceryList = SelectSeq(data.groceryList, LAMBDA i : i.id # id),
                 !.deletedGroceryIds = PushUnlessIncluded(data.deletedGroceryIds, id)]

\* app.delete('/recipes/:id') and app.delete('/grocery/:id'), to their first
\* await: readData().
ReceiveDelete(r, route, id) ==
    /\ running = 0
    /\ req[r].pc = "idle"
    /\ req' = [req EXCEPT ![r].pc = "rd_enter", ![r].route = route, ![r].param = id,
                          ![r].overlap = {q \in Reqs : Active(q)}]
    /\ running' = r
    /\ UNCHANGED <<isLocked, fileStatus, file, faults, mergeVars>>

\* The DELETE handlers after `await readData()`: the record is filtered out,
\* the id pushed on the tombstone list, then writeData(data).
ApplyDelete(r) ==
    /\ running = r
    /\ req[r].pc = "merge"
    /\ req[r].route \in {"delete_recipes", "delete_grocery"}
    /\ req' = [req EXCEPT ![r].pc = "wr_enter",
                          ![r].finalData =
                              IF req[r].route = "delete_recipes"
                              THEN deleteRecipe(req[r].serverData, req[r].param)
                              ELSE deleteGrocery(req[r].serverData, req[r].param),
                          ![r].serverData = initialData]
    /\ UNCHANGED <<isLocked, running, fileStatus, file, faults, mergeVars>>

\* app.post('/data') of lines 275-304, to its first await: the validation,
\* then readData().
ReceiveBulk(r, b) ==
    /\ running = 0
    /\ req[r].pc = "idle"
    /\ IF b.shape # "full"
       THEN /\ req' = [req EXCEPT ![r].pc = "done", ![r].route = "bulk",
                                  ![r].body = b, ![r].status = 400]
            /\ running' = 0
       ELSE /\ req' = [req EXCEPT ![r].pc = "rd_enter", ![r].route = "bulk",
                                  ![r].body = b,
                                  ![r].overlap = {q \in Reqs : Active(q)}]
            /\ running' = r
    /\ UNCHANGED <<isLocked, fileStatus, file, faults, mergeVars>>

\* POST /data of lines 275-304 after `await readData()`: the snapshot is
\* filtered by the server's tombstones and merged, then writeData(mergedData).
ApplyBulk(r) ==
    /\ running = r
    /\ req[r].pc = "merge"
    /\ req[r].route = "bulk"
    /\ req' = [req EXCEPT ![r].pc = "wr_enter",
                          ![r].finalData = mergedData(req[r].serverData, req[r].body),
                          ![r].serverData = initialData]
    /\ UNCHANGED <<isLocked, running, fileStatus, file, faults, mergeVars>>

NextRecords ==
    \/ \E r \in Reqs, b \in RecordBodies : ReceiveRecord(r, "recipes", b)
    \/ \E r \in Reqs, b \in RecordBodies : ReceiveRecord(r, "grocery", b)
    \/ \E r \in Reqs, id \in DeleteIds : ReceiveDelete(r, "delete_recipes", id)
    \/ \E r \in Reqs, id \in DeleteIds : ReceiveDelete(r, "delete_grocery", id)
    \/ \E r \in Reqs, b \in BulkBodies : ReceiveBulk(r, b)
    \/ \E r \in Reqs : ApplyDelete(r)
    \/ \E r \in Reqs : ApplyBulk(r)
    \/ \E r \in Reqs : WithLockEnter(r)
    \/ \E r \in Reqs : TimerFires(r)
    \/ \E r \in Reqs : ReadDataStart(r)
    \/ \E r \in Reqs : InitFileDone(r)
    \/ \E r \in Reqs : ReadFileDone(r)
    \/ \E r \in Reqs : Release(r)
    \/ \E r \in Reqs : ApplyRecipe(r)
    \/ \E r \in Reqs : ApplyGrocery(r)
    \/ \E r \in Reqs : WriteDataStart(r)
    \/ \E r \in Reqs : WriteFileDone(r)
    \/ \E r \in Reqs : Respond(r)

SpecRecords == InitRecords /\ [][NextRecords]_vars

\* ----------------------------------------------- the merge functions alone
\* The inputs are drawn at the start; the actions apply the functions.
InitMerge ==
    /\ ServerOff
    /\ \/ /\ base \in {State(rs, <<>>, <<>>, <<>>) : rs \in ListsOf(Items, MaxTotal)}
          /\ snap \in {State(rs, <<>>, <<>>, <<>>) :
                          rs \in ListsOf(Items, MaxTotal - Len(base.recipes))}
       \/ \E p \in ExtraInputs :
             /\ base = State(p[1], <<>>, <<>>, <<>>)
             /\ snap = State(p[2], <<>>, <<>>, <<>>)
    /\ mergedList = <<>>
    /\ next1 = initialData
    /\ next2 = initialData
    /\ stage = "input"

\* The two lists of deleted ids mergeDeletedIds is applied to on its own.
IdLists == ListsOf(Ids, MaxIdLen) \cup {undefinedIds}

InitIds ==
    /\ ServerOff
    /\ base \in {State(<<>>, <<>>, ids, <<>>) : ids \in IdLists}
    /\ snap \in {State(<<>>, <<>>, ids, <<>>) : ids \in IdLists}
    /\ mergedList = <<>>
    /\ next1 = initialData
    /\ next2 = initialData
    /\ stage = "ids"

MergeIds ==
    /\ stage = "ids"
    /\ next1' = [next1 EXCEPT !.deletedRecipeIds =
                    mergeDeletedIds(base.deletedRecipeIds, snap.deletedRecipeIds)]
    /\ stage' = "idsmerged"
    /\ UNCHANGED <<base, snap, mergedList, next2, serverVars>>

Merge ==
    /\ stage = "input"
    /\ mergedList' = IF mergeOrderedListThrows(base.recipes, snap.recipes)
                      THEN TypeError
                      ELSE mergeOrderedList(base.recipes, snap.recipes)
    /\ stage' = "merged"
    /\ UNCHANGED <<base, snap, next1, next2, serverVars>>

\* The server-order variant applied to the same two lists.
MergeServerOrder ==
    /\ stage = "input"
    /\ mergedList' = mergeRecipes(base.recipes, snap.recipes)
    /\ stage' = "serverorder"
    /\ UNCHANGED <<base, snap, next1, next2, serverVars>>

Reconcile(ds, dc) ==
    /\ stage = "input"
    /\ base' = [base EXCEPT !.deletedRecipeIds = ds]
    /\ snap' = [snap EXCEPT !.deletedRecipeIds = dc]
    /\ next1' = finalData(base', snap')
    /\ stage' = "reconciled"
    /\ UNCHANGED <<mergedList, next2, serverVars>>

ReconcileAgain ==
    /\ stage = "reconciled"
    /\ next2' = finalData(next1, snap)
    /\ stage' = "again"
    /\ UNCHANGED <<base, snap, mergedList, next1, serverVars>>

NextMerge ==
    \/ Merge
    \/ \E ds \in {<<>>, <<"b">>}, dc \in {<<>>, <<"a">>} : Reconcile(ds, dc)
    \/ ReconcileAgain
    \/ MergeIds
    \/ MergeServerOrder

SpecMerge == (InitMerge \/ InitIds) /\ [][NextMerge]_vars

\* ------------------------------------------------------------------ claims
Done200(r) == req[r].pc = "done" /\ req[r].status = 200

\* r has read the persisted state and has not yet written the state it
\* derived from that read.
InCycle(r) ==
    req[r].pc \in {"rd_release", "merge", "wr_enter", "wr_wait", "wr_cb", "wr_write"}

\* r has a storage operation on data.json under way or about to start.
AtStorage(r) == req[r].pc \in {"rd_cb", "rd_init", "rd_read", "wr_cb", "wr_write"}

\* C1: from a POST /data request's read of the persisted state to its write
\* of the state derived from it, the lock is held and no other request reads
\* or writes the persisted state.
C1_LockHeldAcrossReadAndWrite ==
    \A r \in Reqs :
        InCycle(r) =>
            /\ isLocked
            /\ \A q \in Reqs \ {r} : ~AtStorage(q)

\* Between a request's read and its write no other request is at a storage
\* operation: the lock is released and taken again within one turn of the
\* event loop.
NoOtherAccessInCycle ==
    \A r \in Reqs : InCycle(r) => \A q \in Reqs \ {r} : ~AtStorage(q)

\* The ids of the valid elements of a list: objects with a non-empty id.
ValidIds(list) ==
    {list[k].id : k \in {j \in DOMAIN list : list[j].kind = "object" /\ list[j].id # ""}}

\* The persisted state reflects snapshot b: each valid record id of b is in
\* the collection or tombstoned, and each tombstone of b is persisted.
Reflects(b) ==
    /\ fileStatus = "ok"
    /\ \A id \in ValidIds(b.recipes) :
          id \in IdsOf(file.recipes) \/ id \in Range(file.deletedRecipeIds)
    /\ \A id \in ValidIds(b.groceryList) :
          id \in IdsOf(file.groceryList) \/ id \in Range(file.deletedGroceryIds)
    /\ Range(b.deletedRecipeIds) \subseteq Range(file.deletedRecipeIds)
    /\ Range(b.deletedGroceryIds) \subseteq Range(file.deletedGroceryIds)

Overlapped(r, q) == r \in req[q].overlap \/ q \in req[r].overlap

\* C2: once two POST /data requests that overlapped in time have both
\* answered 200, the persisted state reflects both submissions.
C2_NoLostUpdate ==
    \A r \in Reqs, q \in Reqs :
        (r # q /\ Overlapped(r, q) /\ Done200(r) /\ Done200(q))
            => Reflects(req[r].body) /\ Reflects(req[q].body)

\* C3: no change of the persisted state lowers the number of ids in
\* deletedRecipeIds or in deletedGroceryIds.
C3_TombstonesNeverShrink ==
    [][(fileStatus = "ok" /\ fileStatus' = "ok") =>
          /\ Cardinality(Range(file'.deletedRecipeIds))
                >= Cardinality(Range(file.deletedRecipeIds))
          /\ Cardinality(Range(file'.deletedGroceryIds))
                >= Cardinality(Range(file.deletedGroceryIds))]_vars

\* The state holds no record whose id is in its collection's tombstones.
NoTombstonedRecord(d) ==
    /\ IdsOf(d.recipes) \cap Range(d.deletedRecipeIds) = {}
    /\ IdsOf(d.groceryList) \cap Range(d.deletedGroceryIds) = {}

\* r has computed finalData: the state it writes, and answers with on 200.
HasFinalData(r) ==
    req[r].pc \in {"wr_enter", "wr_wait", "wr_cb", "wr_write", "wr_release",
                   "respond", "done"}
    /\ req[r].body.shape = "full"

\* C4: no state POST /data writes, and no 200 response, holds a recipe whose
\* id is in deletedRecipeIds or a grocery item whose id is in
\* deletedGroceryIds.
C4_NoResurrection ==
    \A r \in Reqs : HasFinalData(r) => NoTombstonedRecord(req[r].finalData)

\* A 200 response to a snapshot that holds a record whose id another
\* snapshot, or the snapshot itself, has tombstoned.
C4_Witness ==
    \E r \in Reqs :
        /\ Done200(r)
        /\ \/ ValidIds(req[r].body.recipes)
                 \cap Range(req[r].finalData.deletedRecipeIds) # {}
           \/ ValidIds(req[r].body.groceryList)
                 \cap Range(req[r].finalData.deletedGroceryIds) # {}

\* C5: once a POST /data whose snapshot lists X as deleted has answered 200,
\* X is in the persisted collection in no later state.
C5_DeletionHonoured ==
    \A r \in Reqs :
        (Done200(r) /\ fileStatus = "ok") =>
            /\ Range(req[r].body.deletedRecipeIds) \cap IdsOf(file.recipes) = {}
            /\ Range(req[r].body.deletedGroceryIds) \cap IdsOf(file.groceryList) = {}

\* C6: reconciling snapshot C against the state N that reconciling C against
\* S produced gives N again: the same records in the same order, the same
\* tombstones.
C6_Idempotent == stage = "again" => next2 = next1

\* C7: no id occurs twice in the output of mergeOrderedList.
C7_NoDuplicateIds ==
    stage = "merged" =>
        \A i \in DOMAIN mergedList, j \in DOMAIN mergedList :
            i # j => mergedList[i].id # mergedList[j].id

\* C8: the ids of the output of mergeOrderedList are the ids of the valid
\* elements of the server list and of the client list, and no others.
C8_UnionComplete ==
    stage = "merged" =>
        IdsOf(mergedList) = ValidIds(base.recipes) \cup ValidIds(snap.recipes)

\* A merge of lists that hold a malformed element, an id of the server list
\* alone and an id of the client list alone.
C8_Witness ==
    /\ stage = "merged"
    /\ ValidIds(base.recipes) \ ValidIds(snap.recipes) # {}
    /\ ValidIds(snap.recipes) \ ValidIds(base.recipes) # {}
    /\ \E k \in DOMAIN base.recipes : base.recipes[k].kind # "object"
    /\ IdsOf(mergedList) # {}

\* The valid elements of a list that carry id x.
RecordsOf(list, x) == SelectSeq(list, LAMBDA i : i.kind = "object" /\ i.id = x)

\* x is the id of exactly one record of the server list and of one of the
\* client list.
InBothOnce(x) ==
    Len(RecordsOf(base.recipes, x)) = 1 /\ Len(RecordsOf(snap.recipes, x)) = 1

ServerRecord(x) == RecordsOf(base.recipes, x)[1]
ClientRecord(x) == RecordsOf(snap.recipes, x)[1]

\* The winner of the timestamp comparison, the client's record on a tie.
Winner(x) ==
    IF ClientRecord(x).updatedAt >= ServerRecord(x).updatedAt
    THEN ClientRecord(x) ELSE ServerRecord(x)
Loser(x) ==
    IF ClientRecord(x).updatedAt >= ServerRecord(x).updatedAt
    THEN ServerRecord(x) ELSE ClientRecord(x)

\* C9: for an id in both lists, when the winner of the timestamp comparison
\* (server's or client's record) has instructions and no image and the loser
\* has an image, the merged record is the winner with the loser's image.
C9_ImageKeptBothWays ==
    stage = "merged" =>
        \A x \in Ids :
            (/\ InBothOnce(x)
             /\ Winner(x).imageBase64 = ""
             /\ Loser(x).imageBase64 # ""
             /\ Winner(x).instructions # "")
            => RecordsOf(mergedList, x)
                 = <<[Winner(x) EXCEPT !.imageBase64 = Loser(x).imageBase64]>>

\* C10: when the server's record has an image and the client's record of the
\* same id is newer, has instructions and no image, the merged record is the
\* client's record with the server's image.
C10_NewerEditKeepsImage ==
    stage = "merged" =>
        \A x \in Ids :
            (/\ InBothOnce(x)
             /\ ServerRecord(x).imageBase64 # ""
             /\ ClientRecord(x).instructions # ""
             /\ ClientRecord(x).imageBase64 = ""
             /\ ClientRecord(x).updatedAt > ServerRecord(x).updatedAt)
            => RecordsOf(mergedList, x)
                 = <<[ClientRecord(x) EXCEPT
                        !.imageBase64 = ServerRecord(x).imageBase64]>>

\* A merge of a server record with an image and timestamp 1 with a client
\* record of the same id with instructions, no image and timestamp 2.
C10_Witness ==
    /\ stage = "merged"
    /\ \E x \in Ids :
          /\ InBothOnce(x)
          /\ ServerRecord(x).imageBase64 = "IMG"
          /\ ServerRecord(x).updatedAt = 1
          /\ ClientRecord(x).instructions = "txt"
          /\ ClientRecord(x).imageBase64 = ""
          /\ ClientRecord(x).updatedAt = 2
          /\ \E k \in DOMAIN mergedList :
                mergedList[k].id = x /\ mergedList[k].imageBase64 = "IMG"

\* The list is absent or holds an element the sanitization drops.
HasMalformed(list) == list = undefinedList \/ \E k \in DOMAIN list : ~IsValidItem(list[k])

\* C11: mergeOrderedList does not throw on lists that hold null, numbers,
\* objects without an id or an empty id, nor on an absent list; every such
\* element is dropped, so the merged list holds only records with a
\* non-empty id; server [null, {}, {id: a}] merged with client
\* [{id: a, v: 2}, 42] is exactly the client's record for a.
C11_MalformedInputRobust ==
    stage = "merged" =>
        /\ mergedList # TypeError
        /\ \A k \in DOMAIN mergedList :
              mergedList[k].kind = "object" /\ mergedList[k].id # ""
        /\ IdsOf(mergedList) = ValidIds(base.recipes) \cup ValidIds(snap.recipes)
        /\ (base.recipes = ExampleServerList /\ snap.recipes = ExampleClientList)
              => mergedList = <<ExampleClientList[1]>>

C11_Witness ==
    /\ stage = "merged"
    /\ base.recipes = ExampleServerList
    /\ snap.recipes = ExampleClientList
    /\ HasMalformed(base.recipes) /\ HasMalformed(snap.recipes)
    /\ mergedList = <<[Item("object", "a", 0, "", "") EXCEPT !.v = 2]>>

\* An absent server list is merged as the empty list.
C11_WitnessAbsent ==
    /\ stage = "merged"
    /\ base.recipes = undefinedList
    /\ snap.recipes # undefinedList /\ ValidIds(snap.recipes) # {}
    /\ mergedList = snap.recipes

\* The step in which request r's fs.writeFile of writeData fails.
WriteFailedStep(r) ==
    req[r].pc = "wr_write" /\ req'[r].pc = "wr_release" /\ ~req'[r].ok

\* The step in which request r answers after its writeData returned false.
AnswerAfterFailedWrite(r) ==
    req[r].pc = "respond" /\ ~req[r].ok /\ req'[r].pc = "done"

\* C12: when writeData fails during POST /data the persisted state stays
\* what it was before, the request is answered 500 and not with the merged
\* state, and the lock is free afterwards.
C12_WriteFailureKeepsState ==
    [][\A r \in Reqs :
          /\ WriteFailedStep(r) => (fileStatus' = fileStatus /\ file' = file)
          /\ AnswerAfterFailedWrite(r) => (req'[r].status = 500 /\ ~isLocked')]_vars

\* The answer and the lock after a failed write, without the persisted state.
FailedWriteAnswered500 ==
    [][\A r \in Reqs :
          AnswerAfterFailedWrite(r) => (req'[r].status = 500 /\ ~isLocked')]_vars

\* The step in which request r's fs.readFile completes and the read or the
\* parse of its result fails.
ReadFallbackStep(r) ==
    /\ req[r].pc = "rd_read" /\ req'[r].pc # "rd_read"
    /\ fileStatus # "ok" \/ faults' > faults

RecordDoneAlone(r) ==
    /\ req[r].route \in {"recipes", "grocery"}
    /\ req[r].pc # "done" /\ req'[r].pc = "done" /\ req'[r].status = 200
    /\ \A q \in Reqs \ {r} : ~Active(q) /\ ~Overlapped(r, q)

\* The persisted state holds a record with request r's id in the collection
\* of r's route and does not hold the id on that collection's tombstone list.
Restored(r) ==
    /\ fileStatus' = "ok"
    /\ req[r].route = "recipes" =>
          /\ req[r].record.id \in IdsOf(file'.recipes)
          /\ req[r].record.id \notin Range(file'.deletedRecipeIds)
    /\ req[r].route = "grocery" =>
          /\ req[r].record.id \in IdsOf(file'.groceryList)
          /\ req[r].record.id \notin Range(file'.deletedGroceryIds)

\* C14: after a POST /recipes (POST /grocery) for a valid record with id X
\* has completed with no other request interleaved, the persisted state holds
\* a record with id X in the collection and X is not on its tombstone list,
\* also when X was tombstoned before.
C14_RestorePath ==
    [][\A r \in Reqs : RecordDoneAlone(r) => Restored(r)]_vars

\* The same for the requests whose writeData succeeded or was not called.
RestoredWhenWritten ==
    [][\A r \in Reqs :
          (RecordDoneAlone(r) /\ (req[r].ok \/ req[r].pc = "merge")) => Restored(r)]_vars

\* C15: a caller of withLock that finds the lock taken acquires it in the
\* end and runs its callback, when every holder's callback terminates and
\* the contending requests are finitely many.
C15_LockLiveness ==
    \A r \in Reqs :
        (req[r].pc \in {"rd_wait", "wr_wait"}) ~> (req[r].pc \in {"rd_cb", "wr_cb"})

\* A caller sleeps in the loop of withLock while another holds the lock.
C15_Witness ==
    \E r \in Reqs, q \in Reqs :
        /\ r # q
        /\ req[r].pc = "rd_wait"
        /\ isLocked /\ AtStorage(q)

\* A record with its image left out of the comparison: the merged record is
\* its source record, but for the image the image rule may have carried over.
WithoutImage(i) == [i EXCEPT !.imageBase64 = ""]

\* The merged list holds one record with id x, and it is record i but for
\* the image.
MergedFrom(x, i) ==
    /\ Len(RecordsOf(mergedList, x)) = 1
    /\ WithoutImage(RecordsOf(mergedList, x)[1]) = WithoutImage(i)

\* C16: for an id with one record in each list, the merged record is the
\* record with the strictly greater updatedAt (a missing updatedAt counts as
\* 0), and the client's record when the two are equal.
C16_WinnerByTimestamp ==
    stage = "merged" =>
        \A x \in Ids :
            InBothOnce(x) =>
                /\ ClientRecord(x).updatedAt > ServerRecord(x).updatedAt
                      => MergedFrom(x, ClientRecord(x))
                /\ ServerRecord(x).updatedAt > ClientRecord(x).updatedAt
                      => MergedFrom(x, ServerRecord(x))
                /\ ClientRecord(x).updatedAt = ServerRecord(x).updatedAt
                      => MergedFrom(x, ClientRecord(x))

\* Two different records of one id with equal timestamps: the merged record
\* is the client's.
C16_Witness ==
    /\ stage = "merged"
    /\ InBothOnce("a")
    /\ ClientRecord("a").updatedAt = ServerRecord("a").updatedAt
    /\ ClientRecord("a").updatedAt > 0
    /\ WithoutImage(ClientRecord("a")) # WithoutImage(ServerRecord("a"))
    /\ RecordsOf(mergedList, "a") = <<ClientRecord("a")>>

\* The elements of a list that are records with an id, in their order.
ValidPart(list) == SelectSeq(list, LAMBDA i : i.kind = "object" /\ i.id # "")

IdSeq(list) == [k \in 1..Len(list) |-> list[k].id]

StartsWith(seq, prefix) ==
    Len(prefix) <= Len(seq) /\ SubSeq(seq, 1, Len(prefix)) = prefix

\* C17: the list with the higher recency score gives the merged list its
\* order, the merged list starting with that list's ids in that list's
\* order; on equal scores the client's list does.
C17_OrderingAuthority ==
    stage = "merged" =>
        LET clientScore == getListRecencyScore(ValidPart(snap.recipes))
            serverScore == getListRecencyScore(ValidPart(base.recipes))
        IN  /\ clientScore > serverScore
                  => StartsWith(IdSeq(mergedList), IdSeq(ValidPart(snap.recipes)))
            /\ serverScore > clientScore
                  => StartsWith(IdSeq(mergedList), IdSeq(ValidPart(base.recipes)))
            /\ clientScore = serverScore
                  => StartsWith(IdSeq(mergedList), IdSeq(ValidPart(snap.recipes)))

\* Two lists of equal score above 0 that hold different ids: the client's
\* id comes first.
C17_Witness ==
    /\ stage = "merged"
    /\ IdSeq(ValidPart(snap.recipes)) = <<"a">>
    /\ IdSeq(ValidPart(base.recipes)) = <<"b">>
    /\ getListRecencyScore(ValidPart(snap.recipes)) = 1
    /\ getListRecencyScore(ValidPart(base.recipes)) = 1
    /\ IdSeq(mergedList) = <<"a", "b">>

\* The client's list is the authoritative one.
ClientIsAuthoritative ==
    getListRecencyScore(ValidPart(snap.recipes))
        >= getListRecencyScore(ValidPart(base.recipes))

AuthoritativePart ==
    IF ClientIsAuthoritative THEN ValidPart(snap.recipes) ELSE ValidPart(base.recipes)

OtherPart ==
    IF ClientIsAuthoritative THEN ValidPart(base.recipes) ELSE ValidPart(snap.recipes)

\* The ids of the other list that the authoritative list does not hold, in
\* the other list's order.
OtherOnlyIds ==
    SelectSeq(IdSeq(OtherPart), LAMBDA id : id \notin IdsOf(AuthoritativePart))

\* C18: the merged list's ids are the authoritative list's ids in its order,
\* followed by the ids only the other list holds in that list's order; every
\* position of an id holds the one merged record of that id.
C18_FinalOrder ==
    stage = "merged" =>
        /\ IdSeq(mergedList) = IdSeq(AuthoritativePart) \o OtherOnlyIds
        /\ \A j \in DOMAIN mergedList, k \in DOMAIN mergedList :
              mergedList[j].id = mergedList[k].id => mergedList[j] = mergedList[k]
        /\ \A x \in Ids :
              InBothOnce(x) => MergedFrom(x, Winner(x))

\* The server's list is authoritative and the client holds an id of its own,
\* which comes after the server's ids.
C18_Witness ==
    /\ stage = "merged"
    /\ ~ClientIsAuthoritative
    /\ IdSeq(AuthoritativePart) = <<"b">>
    /\ IdSeq(OtherPart) = <<"a", "b">>
    /\ OtherOnlyIds = <<"a">>
    /\ IdSeq(mergedList) = <<"b", "a">>

\* The updatedAt of every element of a list, 0 where it is missing.
TimesOf(list) == [k \in 1..Len(list) |-> list[k].updatedAt]

\* The median of a sequence of timestamps, the lower of the two middle
\* values when their number is even, 0 when there is none: the value that
\* has at most half of the others above it and more than half at or above.
MedianOf(ts) ==
    IF ts = <<>> THEN 0
    ELSE CHOOSE v \in Range(ts) :
            /\ Cardinality({k \in DOMAIN ts : ts[k] > v}) <= Len(ts) \div 2
            /\ Cardinality({k \in DOMAIN ts : ts[k] >= v}) > Len(ts) \div 2

\* The merged list takes its order from the client's list when cs >= ss and
\* from the server's otherwise.
OrderFollowsScores(cs, ss) ==
    IF cs >= ss
    THEN StartsWith(IdSeq(mergedList), IdSeq(ValidPart(snap.recipes)))
    ELSE StartsWith(IdSeq(mergedList), IdSeq(ValidPart(base.recipes)))

\* C19: the recency score that decides the order is the median of updatedAt
\* over the original input list, the elements the sanitization drops
\* counting with timestamp 0.
C19_ScoreOverOriginalList ==
    stage = "merged" =>
        OrderFollowsScores(MedianOf(TimesOf(snap.recipes)),
                           MedianOf(TimesOf(base.recipes)))

\* C19 as the code has it: the recency score is the median of updatedAt
\* over the sanitized list; the dropped elements do not count.
C19_ScoreOverSanitizedList ==
    stage = "merged" =>
        /\ getListRecencyScore(ValidPart(snap.recipes))
              = MedianOf(TimesOf(ValidPart(snap.recipes)))
        /\ getListRecencyScore(ValidPart(base.recipes))
              = MedianOf(TimesOf(ValidPart(base.recipes)))
        /\ OrderFollowsScores(MedianOf(TimesOf(ValidPart(snap.recipes))),
                              MedianOf(TimesOf(ValidPart(base.recipes))))

\* The server's list holds a dropped element that would lower its median
\* from 1 to 0; the server's order is taken all the same.
C19_Witness ==
    /\ stage = "merged"
    /\ MedianOf(TimesOf(base.recipes)) = 0
    /\ MedianOf(TimesOf(ValidPart(base.recipes))) = 1
    /\ MedianOf(TimesOf(snap.recipes)) = 0
    /\ IdSeq(ValidPart(snap.recipes)) = <<"a">>
    /\ IdSeq(mergedList) = <<"b", "a">>

\* The ids an input of mergeDeletedIds holds, none when it is absent.
IdsGiven(ids) == IF ids = undefinedIds THEN {} ELSE Range(ids)

\* C20: mergeDeletedIds returns the union of its two inputs: every id of
\* either input once, no other id, an absent input counting as empty, and
\* every id of the existing list kept.
C20_DeletedIdsUnion ==
    stage = "idsmerged" =>
        LET out == next1.deletedRecipeIds
        IN  /\ Range(out) = IdsGiven(base.deletedRecipeIds) \cup IdsGiven(snap.deletedRecipeIds)
            /\ \A j \in DOMAIN out, k \in DOMAIN out : out[j] = out[k] => j = k
            /\ IdsGiven(base.deletedRecipeIds) \subseteq Range(out)

\* Two lists that share an id and hold one twice are merged.
C20_Witness ==
    /\ stage = "idsmerged"
    /\ base.deletedRecipeIds = <<"a", "a">>
    /\ snap.deletedRecipeIds = <<"b", "a">>
    /\ next1.deletedRecipeIds = <<"a", "b">>

\* An absent list is merged with a list of ids.
C20_WitnessAbsent ==
    /\ stage = "idsmerged"
    /\ base.deletedRecipeIds = undefinedIds
    /\ snap.deletedRecipeIds = <<"b", "a">>
    /\ next1.deletedRecipeIds = <<"b", "a">>

\* Request r is inside withLock between `isLocked = true` and the finally:
\* its callback has started and the lock has not yet been released for it.
InCallback(r) ==
    req[r].pc \in {"rd_cb", "rd_init", "rd_read", "rd_release",
                   "wr_cb", "wr_write", "wr_release"}

\* Request r has just left withLock: its callback has finished and the
\* finally has run, and r's handler goes on in the same turn.
JustLeftLock(r) == req[r].pc \in {"merge", "respond"}

\* C21: the lock is released on every exit path: once a callback run by
\* withLock has finished, whatever the outcome of its storage operation,
\* isLocked is false, and the lock is never held without a caller inside
\* withLock, so a finished request does not leave it taken.
C21_LockReleasedOnEveryExit ==
    /\ \A r \in Reqs : JustLeftLock(r) => ~isLocked
    /\ isLocked => \E r \in Reqs : InCallback(r)

\* A writeData whose write failed has left withLock and the lock is free.
C21_Witness ==
    \E r \in Reqs :
        /\ req[r].pc = "respond"
        /\ ~req[r].ok
        /\ faults > 0
        /\ ~isLocked

\* C24: at most one callback passed to withLock is between its start and
\* its completion at any time.
C24_MutualExclusion ==
    \A r \in Reqs, q \in Reqs : (InCallback(r) /\ InCallback(q)) => r = q

\* One request is writing data.json inside withLock while another, which
\* found the lock taken, sleeps in the loop.
C24_Witness ==
    \E r \in Reqs, q \in Reqs :
        /\ req[r].pc = "wr_write"
        /\ req[q].pc = "rd_wait"

\* Request r ran with no other request under way, and ends in this step.
DoneAlone(r) ==
    /\ req[r].pc # "done" /\ req'[r].pc = "done"
    /\ \A q \in Reqs \ {r} : ~Active(q) /\ ~Overlapped(r, q)

\* Id x is deleted in the persisted state: no record of the collection has
\* it and the tombstone list holds it once.
DeletedIn(status, doc, route, x) ==
    /\ status = "ok"
    /\ route \in {"delete_recipes", "recipes"} =>
          /\ x \notin IdsOf(doc.recipes)
          /\ Len(SelectSeq(doc.deletedRecipeIds, LAMBDA id : id = x)) = 1
    /\ route \in {"delete_grocery", "grocery"} =>
          /\ x \notin IdsOf(doc.groceryList)
          /\ Len(SelectSeq(doc.deletedGroceryIds, LAMBDA id : id = x)) = 1

\* The fs.writeFile of a bulk POST /data that ran alone so far completes.
BulkWriteStep(r) ==
    /\ req[r].route = "bulk"
    /\ req[r].pc = "wr_write" /\ req'[r].pc = "wr_release"
    /\ \A q \in Reqs \ {r} : ~Active(q) /\ ~Overlapped(r, q)

\* A bulk write leaves every deleted id out of its collection.
StaysOut(x) ==
    /\ DeletedIn(fileStatus, file, "recipes", x) =>
          (fileStatus' = "ok" => x \notin IdsOf(file'.recipes))
    /\ DeletedIn(fileStatus, file, "grocery", x) =>
          (fileStatus' = "ok" => x \notin IdsOf(file'.groceryList))

\* C22: with requests processed one at a time, once DELETE /recipes/:id
\* (DELETE /grocery/:id) for X has completed X is absent from the persisted
\* collection and once on its tombstone list, and no bulk POST /data after
\* it, whatever records its snapshot holds, puts X back in the collection.
C22_DeleteResistsStaleSnapshots ==
    [][\A r \in Reqs :
          /\ (DoneAlone(r) /\ req[r].route \in {"delete_recipes", "delete_grocery"})
                => DeletedIn(fileStatus', file', req[r].route, req[r].param)
          /\ BulkWriteStep(r) => \A x \in Ids : StaysOut(x)]_vars

\* The same in the runs in which no storage operation fails.
DeleteResistsWithoutFaults ==
    [][faults' = 0 =>
          \A r \in Reqs :
              /\ (DoneAlone(r) /\ req[r].route \in {"delete_recipes", "delete_grocery"})
                    => DeletedIn(fileStatus', file', req[r].route, req[r].param)
              /\ BulkWriteStep(r) => \A x \in Ids : StaysOut(x)]_vars

\* A bulk POST /data whose snapshot holds a record of a deleted id has
\* written, and the id is still deleted.
StaleSnapshotKeptOut ==
    \E r \in Reqs :
        /\ req[r].route = "bulk" /\ req[r].pc = "wr_release" /\ req[r].ok
        /\ "a" \in IdsOf(req[r].body.recipes)
        /\ DeletedIn(fileStatus, file, "recipes", "a")

\* The client's record for the id of server record sv, the last of them
\* when the client's list holds several.
ClientVersion(sv) ==
    LET c == ValidPart(snap.recipes)
    IN  c[CHOOSE k \in DOMAIN c : c[k].id = sv.id /\ \A j \in DOMAIN c : c[j].id = sv.id => j <= k]

\* What the server-order variant puts in the place of server record sv.
ReplacedByClient(sv) ==
    IF sv.id \notin ValidIds(snap.recipes) THEN sv
    ELSE IF ClientVersion(sv).imageBase64 = ""
         THEN [ClientVersion(sv) EXCEPT !.imageBase64 = sv.imageBase64]
         ELSE ClientVersion(sv)

\* C23: mergeRecipes of the server-order variant returns the valid client
\* records whose id the server does not hold, in the client's order, then
\* the valid server records in the server's order, each replaced by the
\* client's record of the same id when the client has one, with the
\* server's imageBase64 when the client's record has none.
C23_ServerOrderMerge ==
    stage = "serverorder" =>
        LET s == ValidPart(base.recipes)
            c == ValidPart(snap.recipes)
        IN  mergedList =
                SelectSeq(c, LAMBDA r : r.id \notin ValidIds(base.recipes))
                \o [k \in 1..Len(s) |-> ReplacedByClient(s[k])]

\* The client holds a new record and an edit, without image, of the
\* server's record, which has one.
C23_Witness ==
    /\ stage = "serverorder"
    /\ IdSeq(base.recipes) = <<"a">>
    /\ IdSeq(snap.recipes) = <<"b", "a">>
    /\ base.recipes[1].imageBase64 # ""
    /\ snap.recipes[2].imageBase64 = ""
    /\ snap.recipes[2].updatedAt < base.recipes[1].updatedAt
    /\ mergedList = <<snap.recipes[1],
                      [snap.recipes[2] EXCEPT !.imageBase64 = base.recipes[1].imageBase64]>>

=============================================================================
